---- MODULE Spec2Model ----
(* celery.beat: the periodic task scheduler (ScheduleEntry, Scheduler,      *)
(* ClockService) as a state machine.  One thread runs ClockService.start(), *)
(* stop() is called from outside; the tick is split at the points where     *)
(* control leaves beat.py (send_task, sleep).                               *)
EXTENDS Integers, Sequences, FiniteSets, TLC

(* ------------------------------------------------------------------ *)
(* Bounds                                                             *)
(* ------------------------------------------------------------------ *)
MaxTime == 2
MaxTicks == 2
MaxRemaining == 2
MaxExtraSyncs == 1
DefaultMaxInterval == 2
MaxReconfs == 1
MaxInstances == 2

Names == {"a", "b"}
Times == 0..MaxTime
Remainings == 0..MaxRemaining
MaxIntervalArgs == {0, 1}
SendErrors == {"IOError"}
Interrupts == {"KeyboardInterrupt", "SystemExit"}

(* None for the optional integer arguments of ScheduleEntry.__init__ *)
NoneInt == -1
NoName == "-"

(* ------------------------------------------------------------------ *)
(* Configuration: conf.CELERYBEAT_SCHEDULE                            *)
(* ------------------------------------------------------------------ *)
(* The three forms a configured schedule can take. *)
IntForm == [type |-> "int", seconds |-> 30, relative |-> "n/a"]
DurationForm == [type |-> "timedelta", seconds |-> 30, relative |-> "n/a"]
PolicyForm == [type |-> "schedule", seconds |-> 60, relative |-> "False"]

(* A configuration item; relative = "absent" when the key is not given. *)
ConfigItem(n, s, rel) ==
    [name |-> n, schedule |-> s, relative |-> rel,
     args |-> <<n>>, kwargs |-> "kw_" \o n, options |-> "opt_" \o n]

ConfigItems(n) ==
    {ConfigItem(n, IntForm, "absent"),
     ConfigItem(n, DurationForm, "True"),
     ConfigItem(n, PolicyForm, "absent")}

Configs ==
    UNION {{c \in [S -> UNION {ConfigItems(n) : n \in S}] :
               \A n \in S : c[n] \in ConfigItems(n)} : S \in SUBSET Names}

(* ------------------------------------------------------------------ *)
(* ScheduleEntry                                                      *)
(* ------------------------------------------------------------------ *)
(* ScheduleEntry.__init__: last_run_at or datetime.now(), total_run_count or 0 *)
ScheduleEntry(name, schedule, args, kwargs, options, last_run_at, total_run_count, t) ==
    [name |-> name, schedule |-> schedule, args |-> args, kwargs |-> kwargs,
     options |-> options,
     last_run_at |-> IF last_run_at = NoneInt THEN t ELSE last_run_at,
     total_run_count |-> IF total_run_count = NoneInt \/ total_run_count = 0
                         THEN 0 ELSE total_run_count]

(* next() that passes the count on as it is *)
EntryNextSameCount(self, t) ==
    ScheduleEntry(self.name, self.schedule, self.args, self.kwargs,
                  self.options, t, self.total_run_count, t)

(* ScheduleEntry.next at clock reading t *)
EntryNext(self, t) ==
    ScheduleEntry(self.name, self.schedule, self.args, self.kwargs,
                  self.options, t, self.total_run_count + 1, t)

(* Does the schedule object expose is_due?  A bare timedelta does not. *)
HasIsDue(schedule) == schedule.type = "schedule"

NoEntry ==
    [name |-> NoName, schedule |-> PolicyForm, args |-> <<>>, kwargs |-> "",
     options |-> "", last_run_at |-> 0, total_run_count |-> 0]

(* ------------------------------------------------------------------ *)
(* Scheduler helpers                                                  *)
(* ------------------------------------------------------------------ *)
(* dict item assignment d[k] = v *)
SetItem(d, k, v) == [x \in (DOMAIN d) \cup {k} |-> IF x = k THEN v ELSE d[x]]

(* Scheduler.maybe_schedule *)
maybe_schedule(s, relative) ==
    IF s.type = "int"
    THEN [type |-> "timedelta", seconds |-> s.seconds, relative |-> "n/a"]
    ELSE IF s.type = "timedelta"
    THEN [type |-> "schedule", seconds |-> s.seconds, relative |-> relative]
    ELSE s

(* entry.pop("relative", None) *)
PopRelative(item) == IF item.relative = "absent" THEN "None" ELSE item.relative

(* Scheduler.dict_to_entries: the entries it returns ... *)
dict_to_entries(dict_, t) ==
    [n \in DOMAIN dict_ |->
        ScheduleEntry(dict_[n].name,
                      maybe_schedule(dict_[n].schedule, PopRelative(dict_[n])),
                      dict_[n].args, dict_[n].kwargs, dict_[n].options,
                      NoneInt, NoneInt, t)]

(* ... and what it leaves behind in the configuration it was given *)
dict_after_entries(dict_) ==
    [n \in DOMAIN dict_ |->
        [dict_[n] EXCEPT !.relative = "absent",
                         !.schedule = maybe_schedule(dict_[n].schedule,
                                                     PopRelative(dict_[n]))]]

(* reserve() that computes entry.next() and does not store it *)
reserveNoStore(d, entry, t) == d

(* reserve() that adds the successor under a key of its own *)
reserveAsNew(d, entry, t) == SetItem(d, entry.name \o "'", EntryNext(entry, t))

(* Scheduler.reserve: self.schedule[entry.name] = entry.next() *)
reserve(d, entry, t) == SetItem(d, entry.name, EntryNext(entry, t))

RECURSIVE SeqMin(_)
SeqMin(s) ==
    IF Len(s) = 1 THEN s[1]
    ELSE LET m == SeqMin(Tail(s)) IN IF s[1] <= m THEN s[1] ELSE m

(* tick() appending whatever maybe_due returned *)
CollectAlways(remaining, next_time_to_run) ==
    Append(remaining, next_time_to_run)

(* the list tick() builds: a value is appended only when it is truthy *)
CollectRemaining(remaining, next_time_to_run) ==
    IF next_time_to_run # 0 THEN Append(remaining, next_time_to_run)
    ELSE remaining

(* tick() falling back on max_interval only when nothing was collected *)
TickResultNoCap(remaining, maxint) ==
    IF remaining = <<>> THEN maxint ELSE SeqMin(remaining)

(* the value tick() returns *)
TickResult(remaining, maxint) == SeqMin(remaining \o <<maxint>>)

(* Scheduler.__init__: max_interval or conf.CELERYBEAT_MAX_LOOP_INTERVAL *)
SchedulerMaxInterval(arg) == IF arg = 0 THEN DefaultMaxInterval ELSE arg

(* apply_async letting the exception of send_task through *)
ApplyAsyncReraises(exc) == exc

(* apply_async: any Exception of send_task is re-raised as SchedulingError *)
ApplyAsyncRaises(exc) == "SchedulingError"

(* maybe_due: except SchedulingError *)
MaybeDueCatches(exc) == exc = "SchedulingError"

(* tick() without the except clause *)
TickCatchesNothing(exc) == FALSE

(* tick: except RuntimeError *)
TickCatches(exc) == exc = "RuntimeError"

(* start() with except KeyboardInterrupt only *)
StartCatchesKeyboardOnly(exc) == exc = "KeyboardInterrupt"

(* start: except (KeyboardInterrupt, SystemExit) *)
StartCatches(exc) == exc \in {"KeyboardInterrupt", "SystemExit"}

(* tick() whose finally clause leaves the connection as it is *)
TickFinallyLeak(conn) == conn

(* tick: finally connection.close() *)
TickFinally(conn) == "closed"

(* a loop test that never sees the flag *)
ShutdownNeverSet(flag) == FALSE

(* start: self._shutdown.isSet() *)
ShutdownIsSet(flag) == flag

(* Scheduler.__init__: self.data = schedule, then setup_schedule() assigns *)
(* self.data = self.dict_to_entries(conf.CELERYBEAT_SCHEDULE)              *)
SchedulerData(schedule_, config, t) == dict_to_entries(config, t)

(* _Threaded.stop passing wait=False *)
ThreadedStopNoWait == FALSE

(* _Threaded.stop: self.clockservice.stop(wait=True) *)
ThreadedStopWait == TRUE

(* _Process.stop passing wait=True *)
ProcessStopWaits == TRUE

(* _Process.stop: self.clockservice.stop(), wait left at its default *)
ProcessStopWait == FALSE

(* sync() that flips the flag *)
syncToggle(stoppedFlag) == ~stoppedFlag

(* ClockService.sync: self._stopped.set() *)
sync(stoppedFlag) == TRUE

(* ------------------------------------------------------------------ *)
(* State                                                              *)
(* ------------------------------------------------------------------ *)
VARIABLES
    conf,            \* conf.CELERYBEAT_SCHEDULE (a dict of dicts, mutable)
    schedule,        \* ClockService.schedule, passed on to the Scheduler
    caller,          \* the thread or process that calls stop()
    di_used,         \* size of the mapping when tick() made its iterator
    max_interval_arg,\* ClockService.max_interval (0: falsy)
    data,            \* Scheduler.data, the mapping name -> entry
    max_interval,    \* Scheduler.max_interval
    now,             \* the clock read by datetime.now()
    pc,              \* position of the thread running start()
    shutdown,        \* ClockService._shutdown
    stopped,         \* ClockService._stopped
    connection,      \* "none" | "open" | "closed": the tick's connection
    todo,            \* names the iterator of tick() has not yielded yet
    remaining_times, \* tick(): remaining_times
    entry,           \* maybe_due(): entry
    new_entry,       \* apply_async(): entry after reserve
    next_time_to_run,\* maybe_due(): next_time_to_run
    interval,        \* start(): interval, the value tick() returned
    exc,             \* exception start() will propagate to its caller
    nticks,          \* ticks started so far
    history          \* what an observer of the run has recorded

vars == <<conf, schedule, caller, di_used, max_interval_arg, data, max_interval, now, pc, shutdown,
          stopped, connection, todo, remaining_times, entry, new_entry,
          next_time_to_run, interval, exc, nticks, history>>

(* history fields:
     data0     the mapping when the current tick began
     visits    name -> times maybe_due was entered for it in this tick
     attempts  name -> send_task calls made for it in this tick
     failed    name -> the entry apply_async had reserved when its send_task
               raised in this tick
     reported  name -> the <<due, remaining>> answers is_due gave for it
               in this tick, in order
     tick      "none" | "running" | "returned" | "raised": how the last
               tick ended; "none" again once the loop has been left
     syncs     sync() calls made by start()
     extra     sync() calls made after start() finished
     interrupted  KeyboardInterrupt or SystemExit was raised in the loop
     conf0     the configuration before the first Scheduler was built
     built     the mappings the Scheduler instances were built with, in order
     observed  the loop test has seen the shutdown flag set
     stop_tick number of the tick that was running when the shutdown flag
               was set, 0 when none was
     after_ticks, after_sleeps  ticks and sleeps the loop began with the
               shutdown flag already set, counted while the loop runs
     touched   the names another thread has added to or removed from the
               mapping, in order
     aborted   number of the last tick whose scan ended on an invalid
               iterator, 0 when none did *)
NoHistory ==
    [data0 |-> <<>>, visits |-> <<>>, attempts |-> <<>>, failed |-> <<>>,
     reported |-> <<>>, tick |-> "none", syncs |-> 0, extra |-> 0,
     interrupted |-> FALSE, conf0 |-> <<>>, built |-> <<>>,
     observed |-> FALSE, stop_tick |-> 0, after_ticks |-> 0,
     after_sleeps |-> 0, touched |-> <<>>, aborted |-> 0]

(* ClockService.__init__: schedule defaults to conf.CELERYBEAT_SCHEDULE *)
ConfSchedule == [kind |-> "conf", entries |-> <<>>]

(* an entry a schedule store holds from an earlier run *)
StoredEntry(n) ==
    ScheduleEntry(n, PolicyForm, <<n>>, "kw_" \o n, "opt_" \o n, 0, 2, 0)

(* the schedule argument: the default, or a store of entries *)
Schedules ==
    {ConfSchedule} \cup
    {[kind |-> "store", entries |-> [n \in S |-> StoredEntry(n)]] :
        S \in SUBSET Names}

(* nobody has called stop(); shutdown is the flag of the caller's own copy *)
(* of the service, which is what a parent process sets                    *)
NoCaller == [pc |-> "idle", shutdown |-> FALSE]

(* no Scheduler exists yet, start() has not been called *)
InitLocals ==
    /\ caller = NoCaller
    /\ di_used = 0
    /\ data = <<>>
    /\ max_interval = 0
    /\ pc = "idle"
    /\ shutdown = FALSE
    /\ stopped = FALSE
    /\ connection = "none"
    /\ todo = {}
    /\ remaining_times = <<>>
    /\ entry = NoEntry
    /\ new_entry = NoEntry
    /\ next_time_to_run = 0
    /\ interval = 0
    /\ exc = "none"
    /\ nticks = 0
    /\ history = NoHistory

Init ==
    /\ conf \in Configs
    /\ schedule = ConfSchedule
    /\ max_interval_arg \in MaxIntervalArgs
    /\ now = 0
    /\ InitLocals

(* the iterator of tick() finds the size of the dict changed *)
IterInvalid == di_used # Cardinality(DOMAIN data)

(* ------------------------------------------------------------------ *)
(* Exceptions leaving the loop body of start()                        *)
(* ------------------------------------------------------------------ *)
(* The history once start() has left its loop for good: what was noted *)
(* about the last tick is dropped.                                     *)
LoopLeft(h) ==
    [h EXCEPT !.data0 = <<>>, !.visits = <<>>, !.attempts = <<>>,
              !.failed = <<>>, !.reported = <<>>, !.tick = "none"]

(* An exception e raised inside the for loop of tick(): tick() swallows  *)
(* it (except RuntimeError) and returns, or closes the connection in its *)
(* finally clause and raises into start().                               *)
RaiseInTick(e, h) ==
    /\ connection' = TickFinally(connection)
    /\ remaining_times' = <<>>
    /\ todo' = {}
    /\ IF TickCatches(e)
       THEN /\ interval' = TickResult(remaining_times, max_interval)
            /\ pc' = "sleep"
            /\ exc' = exc
            /\ history' = [h EXCEPT !.tick = "returned"]
       ELSE /\ interval' = interval
            /\ pc' = IF StartCatches(e) THEN "except" ELSE "finally"
            /\ exc' = IF StartCatches(e) THEN "none" ELSE e
            /\ history' =
                   IF e \in Interrupts
                   THEN [LoopLeft(h) EXCEPT !.interrupted = TRUE,
                                            !.after_ticks = 0,
                                            !.after_sleeps = 0]
                   ELSE [h EXCEPT !.tick = "raised",
                                  !.after_ticks = 0, !.after_sleeps = 0]

(* ------------------------------------------------------------------ *)
(* ClockService.start                                                 *)
(* ------------------------------------------------------------------ *)
(* start(), up to the try: the first read of self.scheduler instantiates *)
(* the Scheduler, whose __init__ runs setup_schedule().                  *)
Start ==
    /\ pc = "idle"
    /\ data' = SchedulerData(schedule, conf, now)
    /\ conf' = dict_after_entries(conf)
    /\ max_interval' = SchedulerMaxInterval(max_interval_arg)
    /\ pc' = "loop"
    /\ history' = [history EXCEPT !.conf0 = conf, !.built = <<data'>>]
    /\ UNCHANGED <<schedule, caller, di_used, max_interval_arg, now, shutdown, stopped, connection, todo,
                   remaining_times, entry, new_entry, next_time_to_run,
                   interval, exc, nticks>>

(* while True: if self._shutdown.isSet(): break *)
LoopExit ==
    /\ pc = "loop"
    /\ ShutdownIsSet(shutdown)
    /\ pc' = "finally"
    /\ history' = [history EXCEPT !.observed = TRUE, !.stop_tick = 0,
                                  !.after_ticks = 0, !.after_sleeps = 0]
    /\ UNCHANGED <<conf, schedule, caller, di_used, max_interval_arg, data, max_interval, now, shutdown,
                   stopped, connection, todo, remaining_times, entry,
                   new_entry, next_time_to_run, interval, exc, nticks>>

(* the loop test found the flag clear: control is about to call tick() *)
LoopCheck ==
    /\ pc = "loop"
    /\ ~ShutdownIsSet(shutdown)
    /\ nticks < MaxTicks
    /\ pc' = "checked"
    /\ UNCHANGED <<conf, schedule, caller, di_used, max_interval_arg, data, max_interval, now, shutdown,
                   stopped, connection, todo, remaining_times, entry,
                   new_entry, next_time_to_run, interval, exc, nticks, history>>

(* tick(): remaining_times = [], establish_connection(), iterator created *)
TickBegin ==
    /\ pc = "checked"
    /\ nticks' = nticks + 1
    /\ remaining_times' = <<>>
    /\ connection' = "open"
    /\ todo' = DOMAIN data
    /\ di_used' = Cardinality(DOMAIN data)
    /\ pc' = "scan"
    /\ history' = [history EXCEPT !.data0 = data,
                                  !.visits = [n \in DOMAIN data |-> 0],
                                  !.attempts = [n \in DOMAIN data |-> 0],
                                  !.failed = <<>>,
                                  !.reported = [n \in DOMAIN data |-> <<>>],
                                  !.tick = "running",
                                  !.after_ticks =
                                      IF shutdown THEN @ + 1 ELSE @]
    /\ UNCHANGED <<conf, schedule, caller, max_interval_arg, data, max_interval, now, shutdown,
                   stopped, entry, new_entry, next_time_to_run, interval, exc>>

(* One turn of the for loop up to the next call that leaves beat.py:     *)
(* maybe_due(entry) evaluates entry.is_due(); a due entry is reserved    *)
(* (apply_async, line 170) and control stops before send_task; for an    *)
(* entry that is not due maybe_due returns and tick() collects.          *)
MaybeDue(n) ==
    /\ pc = "scan"
    /\ n \in todo
    /\ n \in DOMAIN data
    /\ ~IterInvalid
    /\ LET h == [history EXCEPT !.visits[n] = @ + 1] IN
       IF ~HasIsDue(data[n].schedule)
       THEN /\ RaiseInTick("AttributeError", h)
            /\ UNCHANGED <<data, entry, new_entry, next_time_to_run>>
       ELSE \E due \in BOOLEAN, rem \in Remainings :
            /\ history' = [h EXCEPT !.reported[n] = Append(@, <<due, rem>>)]
            /\ todo' = todo \ {n}
            /\ IF due
               THEN /\ entry' = data[n]
                    /\ next_time_to_run' = rem
                    /\ data' = reserve(data, data[n], now)
                    /\ new_entry' = EntryNext(data[n], now)
                    /\ pc' = "send"
                    /\ UNCHANGED remaining_times
               ELSE /\ remaining_times' = CollectRemaining(remaining_times, rem)
                    /\ pc' = "scan"
                    /\ UNCHANGED <<data, entry, new_entry, next_time_to_run>>
            /\ UNCHANGED <<connection, interval, exc>>
    /\ UNCHANGED <<conf, schedule, caller, di_used, max_interval_arg, max_interval, now, shutdown,
                   stopped, nticks>>

(* apply_async from send_task on, back through maybe_due into tick() *)
SendTask ==
    /\ pc = "send"
    /\ \E r \in {"ok"} \cup SendErrors :
       LET h == [history EXCEPT !.attempts[entry.name] = @ + 1] IN
       IF r = "ok" \/ MaybeDueCatches(ApplyAsyncRaises(r))
       THEN /\ remaining_times' =
                   CollectRemaining(remaining_times, next_time_to_run)
            /\ pc' = "scan"
            /\ history' = IF r = "ok" THEN h
                          ELSE [h EXCEPT !.failed =
                                            SetItem(@, entry.name, new_entry)]
            /\ UNCHANGED <<connection, interval, exc, todo>>
       ELSE RaiseInTick(ApplyAsyncRaises(r), h)
    /\ entry' = NoEntry
    /\ new_entry' = NoEntry
    /\ next_time_to_run' = 0
    /\ UNCHANGED <<conf, schedule, caller, di_used, max_interval_arg, data, max_interval, now, shutdown,
                   stopped, nticks>>

(* the iterator is exhausted: finally connection.close(), return min(...) *)
TickReturn ==
    /\ pc = "scan"
    /\ todo \cap DOMAIN data = {}
    /\ ~IterInvalid
    /\ connection' = TickFinally(connection)
    /\ interval' = TickResult(remaining_times, max_interval)
    /\ remaining_times' = <<>>
    /\ pc' = "sleep"
    /\ history' = [history EXCEPT !.tick = "returned"]
    /\ todo' = {}
    /\ UNCHANGED <<conf, schedule, caller, di_used, max_interval_arg, data, max_interval, now, shutdown,
                   stopped, entry, new_entry, next_time_to_run, exc,
                   nticks>>

(* time.sleep(interval) returns: the clock has moved on by the interval *)
Sleep ==
    /\ pc = "sleep"
    /\ pc' = "loop"
    /\ now' = IF now + interval <= MaxTime THEN now + interval ELSE MaxTime
    /\ history' = [history EXCEPT !.after_sleeps =
                                      IF shutdown THEN @ + 1 ELSE @]
    /\ UNCHANGED <<conf, schedule, caller, di_used, max_interval_arg, data, max_interval, shutdown,
                   stopped, connection, todo, remaining_times, entry,
                   new_entry, next_time_to_run, interval, exc, nticks>>

(* KeyboardInterrupt or SystemExit is raised in the thread running the   *)
(* loop: inside tick() it passes maybe_due and apply_async (neither is   *)
(* an Exception subclass' handler target) and tick()'s finally clause.   *)
Interrupt ==
    /\ pc \in {"loop", "checked", "scan", "send", "sleep"}
    /\ \E sig \in Interrupts :
       IF pc \in {"scan", "send"}
       THEN RaiseInTick(sig, history)
       ELSE /\ pc' = IF StartCatches(sig) THEN "except" ELSE "finally"
            /\ exc' = IF StartCatches(sig) THEN "none" ELSE sig
            /\ history' = [LoopLeft(history) EXCEPT
                                          !.interrupted = sig \in Interrupts,
                                          !.after_ticks = 0,
                                          !.after_sleeps = 0]
            /\ UNCHANGED <<connection, interval, remaining_times, todo>>
    /\ entry' = NoEntry
    /\ new_entry' = NoEntry
    /\ next_time_to_run' = 0
    /\ UNCHANGED <<conf, schedule, caller, di_used, max_interval_arg, data, max_interval, now, shutdown,
                   stopped, nticks>>

(* except (KeyboardInterrupt, SystemExit): self.sync() *)
ExceptSync ==
    /\ pc = "except"
    /\ stopped' = sync(stopped)
    /\ history' = [LoopLeft(history) EXCEPT !.syncs = @ + 1]
    /\ pc' = "finally"
    /\ UNCHANGED <<conf, schedule, caller, di_used, max_interval_arg, data, max_interval, now, shutdown,
                   connection, todo, remaining_times, entry, new_entry,
                   next_time_to_run, interval, exc, nticks>>

(* finally: self.sync() *)
FinallySync ==
    /\ pc = "finally"
    /\ stopped' = sync(stopped)
    /\ history' = [LoopLeft(history) EXCEPT !.syncs = @ + 1]
    /\ pc' = "return"
    /\ UNCHANGED <<conf, schedule, caller, di_used, max_interval_arg, data, max_interval, now, shutdown,
                   connection, todo, remaining_times, entry, new_entry,
                   next_time_to_run, interval, exc, nticks>>

(* the finally clause is over: start() returns or the exception goes on *)
StartReturn ==
    /\ pc = "return"
    /\ pc' = "done"
    /\ UNCHANGED <<conf, schedule, caller, di_used, max_interval_arg, data, max_interval, now, shutdown,
                   stopped, connection, todo, remaining_times, entry,
                   new_entry, next_time_to_run, interval, exc, nticks, history>>

(* ------------------------------------------------------------------ *)
(* Calls from outside the loop                                        *)
(* ------------------------------------------------------------------ *)
(* the history once the shutdown flag has been set in the current state *)
NoteStop(h) ==
    [h EXCEPT !.stop_tick = IF pc \in {"scan", "send"} THEN nticks ELSE 0]

(* ClockService.stop: self._shutdown.set() *)
Stop ==
    /\ ~shutdown
    /\ shutdown' = TRUE
    /\ history' = NoteStop(history)
    /\ UNCHANGED <<conf, schedule, caller, di_used, max_interval_arg, data, max_interval, now, pc,
                   stopped, connection, todo, remaining_times, entry,
                   new_entry, next_time_to_run, interval, exc, nticks>>

(* a further call of ClockService.sync once start() has finished *)
SyncCall ==
    /\ pc = "done"
    /\ history.extra < MaxExtraSyncs
    /\ stopped' = sync(stopped)
    /\ history' = [history EXCEPT !.extra = @ + 1]
    /\ UNCHANGED <<conf, schedule, caller, di_used, max_interval_arg, data, max_interval, now, pc,
                   shutdown, connection, todo, remaining_times, entry,
                   new_entry, next_time_to_run, interval, exc, nticks>>

(* ------------------------------------------------------------------ *)
(* The thread-embedded service: _Threaded                              *)
(* ------------------------------------------------------------------ *)
(* _Threaded.stop -> ClockService.stop(wait=True), up to the wait: the    *)
(* caller shares the service object with the thread running start()      *)
ThreadedStop ==
    /\ caller.pc = "idle"
    /\ shutdown' = TRUE
    /\ caller' = [caller EXCEPT !.pc = IF ThreadedStopWait
                                       THEN "waiting" ELSE "returned"]
    /\ history' = NoteStop(history)
    /\ UNCHANGED <<conf, schedule, di_used, max_interval_arg, data,
                   max_interval, now, pc, stopped, connection, todo,
                   remaining_times, entry, new_entry, next_time_to_run,
                   interval, exc, nticks>>

(* wait and self._stopped.wait(): the wait is over, stop() returns *)
StopWait ==
    /\ caller.pc = "waiting"
    /\ stopped
    /\ caller' = [caller EXCEPT !.pc = "returned"]
    /\ UNCHANGED <<conf, schedule, di_used, max_interval_arg, data,
                   max_interval, now, pc, shutdown, stopped, connection,
                   todo, remaining_times, entry, new_entry,
                   next_time_to_run, interval, exc, nticks, history>>

Next ==
    \/ Start
    \/ LoopExit
    \/ LoopCheck
    \/ TickBegin
    \/ \E n \in Names : MaybeDue(n)
    \/ SendTask
    \/ TickReturn
    \/ Sleep
    \/ Interrupt
    \/ ExceptSync
    \/ FinallySync
    \/ StartReturn
    \/ Stop

Spec == Init /\ [][Next]_vars

(* ------------------------------------------------------------------ *)
(* sync() called again after start() has finished                      *)
(* ------------------------------------------------------------------ *)
(* the service runs a schedule of at most one entry *)
InitSync ==
    /\ Init
    /\ DOMAIN conf \subseteq {"a"}

NextSync ==
    \/ Next
    \/ SyncCall

SpecSync == InitSync /\ [][NextSync]_vars

(* ------------------------------------------------------------------ *)
(* Building Schedulers from the configuration                          *)
(* ------------------------------------------------------------------ *)
InitStored ==
    /\ conf \in Configs
    /\ schedule \in Schedules
    /\ max_interval_arg \in MaxIntervalArgs
    /\ now \in Times
    /\ InitLocals

(* A further service is built and reads self.scheduler: one more         *)
(* Scheduler is made from the same conf.CELERYBEAT_SCHEDULE and schedule *)
NewScheduler ==
    /\ pc = "loop"
    /\ nticks = 0
    /\ Len(history.built) < MaxInstances
    /\ data' = SchedulerData(schedule, conf, now)
    /\ conf' = dict_after_entries(conf)
    /\ max_interval' = SchedulerMaxInterval(max_interval_arg)
    /\ history' = [history EXCEPT !.built = Append(@, data')]
    /\ UNCHANGED <<schedule, caller, di_used, max_interval_arg, now, pc,
                   shutdown, stopped, connection, todo, remaining_times,
                   entry, new_entry, next_time_to_run, interval, exc, nticks>>

(* time passes between two constructions *)
Elapse ==
    /\ pc = "loop"
    /\ nticks = 0
    /\ now < MaxTime
    /\ now' = now + 1
    /\ UNCHANGED <<conf, schedule, caller, di_used, max_interval_arg, data,
                   max_interval, pc, shutdown, stopped, connection, todo,
                   remaining_times, entry, new_entry, next_time_to_run,
                   interval, exc, nticks, history>>

NextInit ==
    \/ Start
    \/ NewScheduler
    \/ Elapse

SpecInit == InitStored /\ [][NextInit]_vars

(* ------------------------------------------------------------------ *)
(* The mapping changed by another thread while tick() scans it         *)
(* ------------------------------------------------------------------ *)
(* Another thread adds a name to Scheduler.data or deletes one, while *)
(* tick() is inside its for loop.                                     *)
Reconfigure ==
    /\ pc \in {"scan", "send"}
    /\ Len(history.touched) < MaxReconfs
    /\ \E n \in Names :
          /\ data' = IF n \in DOMAIN data
                     THEN [x \in DOMAIN data \ {n} |-> data[x]]
                     ELSE SetItem(data, n,
                                  ScheduleEntry(n, PolicyForm, <<n>>, "kw_" \o n,
                                                "opt_" \o n, NoneInt, NoneInt,
                                                now))
          /\ history' = [history EXCEPT !.touched = Append(@, n)]
    /\ UNCHANGED <<conf, schedule, caller, di_used, max_interval_arg,
                   max_interval, now, pc, shutdown, stopped, connection,
                   todo, remaining_times, entry, new_entry,
                   next_time_to_run, interval, exc, nticks>>

(* for entry in self.schedule.itervalues(): the iterator's next() raises *)
(* RuntimeError("dictionary changed size during iteration")              *)
IterRaises ==
    /\ pc = "scan"
    /\ IterInvalid
    /\ RaiseInTick("RuntimeError", [history EXCEPT !.aborted = nticks])
    /\ UNCHANGED <<conf, schedule, caller, di_used, max_interval_arg, data,
                   max_interval, now, shutdown, stopped, entry, new_entry,
                   next_time_to_run, nticks>>

NextReconf ==
    \/ Start
    \/ LoopCheck
    \/ TickBegin
    \/ \E n \in Names : MaybeDue(n)
    \/ SendTask
    \/ TickReturn
    \/ Sleep
    \/ FinallySync
    \/ StartReturn
    \/ Reconfigure
    \/ IterRaises

(* The service is built without a max_interval of its own.  Durations *)
(* and policies give the same entries to scan, and the names are      *)
(* interchangeable: the schedules are policies, or an integer for "a". *)
InitReconf ==
    /\ Init
    /\ max_interval_arg = 0
    /\ \A n \in DOMAIN conf :
           \/ conf[n].schedule.type = "schedule"
           \/ n = "a" /\ conf[n].schedule.type = "int"

SpecReconf == InitReconf /\ [][NextReconf]_vars

(* EmbeddedClockService(thread=True): kwargs.setdefault("max_interval", 1); *)
(* the service runs a schedule of at most one entry                        *)
InitThread ==
    /\ Init
    /\ max_interval_arg = 1
    /\ DOMAIN conf \subseteq {"a"}

(* the steps of the thread that runs start(), exceptions raised from *)
(* outside left out                                                   *)
LoopThread ==
    \/ Start
    \/ LoopExit
    \/ LoopCheck
    \/ TickBegin
    \/ \E n \in Names : MaybeDue(n)
    \/ SendTask
    \/ TickReturn
    \/ Sleep
    \/ ExceptSync
    \/ FinallySync
    \/ StartReturn

NextThread ==
    \/ LoopThread
    \/ Interrupt
    \/ ThreadedStop
    \/ StopWait

(* Both threads are scheduled fairly, and every call the loop makes *)
(* returns or raises.                                               *)
SpecThread ==
    /\ InitThread
    /\ [][NextThread]_vars
    /\ WF_vars(LoopThread)
    /\ WF_vars(StopWait)

(* ------------------------------------------------------------------ *)
(* The process-embedded service: _Process                              *)
(* ------------------------------------------------------------------ *)
(* _Process.stop, first statement: ClockService.stop() on the caller's  *)
(* own copy of the service; the worker process has a copy of its own,   *)
(* whose _shutdown flag this does not set                               *)
ProcessStop ==
    /\ caller.pc = "idle"
    /\ caller' = [pc |-> IF ProcessStopWait THEN "waiting" ELSE "terminate",
                  shutdown |-> TRUE]
    /\ UNCHANGED <<conf, schedule, di_used, max_interval_arg, data,
                   max_interval, now, pc, shutdown, stopped, connection,
                   todo, remaining_times, entry, new_entry,
                   next_time_to_run, interval, exc, nticks, history>>

(* _Process.stop, second statement: self.terminate(); run() has reset   *)
(* SIGTERM to its default, so a worker that is still running dies where *)
(* it is                                                                *)
ProcessTerminate ==
    /\ caller.pc = "terminate"
    /\ caller' = [caller EXCEPT !.pc = "returned"]
    /\ pc' = IF pc = "done" THEN "done" ELSE "terminated"
    /\ UNCHANGED <<conf, schedule, di_used, max_interval_arg, data,
                   max_interval, now, shutdown, stopped, connection, todo,
                   remaining_times, entry, new_entry, next_time_to_run,
                   interval, exc, nticks, history>>

(* the worker runs a schedule of at most one entry *)
InitProcess ==
    /\ Init
    /\ DOMAIN conf \subseteq {"a"}

(* the steps of the worker process: its shutdown flag is never set, so *)
(* the loop test never breaks                                          *)
LoopProcess ==
    \/ Start
    \/ LoopCheck
    \/ TickBegin
    \/ \E n \in Names : MaybeDue(n)
    \/ SendTask
    \/ TickReturn
    \/ Sleep
    \/ FinallySync
    \/ StartReturn

NextProcess ==
    \/ LoopProcess
    \/ ProcessStop
    \/ ProcessTerminate

(* The caller of stop() goes on running; nothing is assumed about the *)
(* progress of the worker.                                             *)
SpecProcess ==
    /\ InitProcess
    /\ [][NextProcess]_vars
    /\ WF_vars(ProcessTerminate)

TypeOK ==
    /\ pc \in {"idle", "loop", "checked", "scan", "send", "sleep", "except",
               "finally", "return", "done", "terminated"}
    /\ caller.pc \in {"idle", "waiting", "terminate", "returned"}
    /\ now \in Times
    /\ connection \in {"none", "open", "closed"}
    /\ nticks \in 0..MaxTicks

(* ------------------------------------------------------------------ *)
(* Properties                                                         *)
(* ------------------------------------------------------------------ *)
SetMin(S) == CHOOSE x \in S : \A y \in S : x <= y

(* every entry of the mapping carries a schedule policy *)
WellFormed(d) == \A n \in DOMAIN d : HasIsDue(d[n].schedule)

(* the remaining values is_due reported in the current tick *)
AllReported ==
    UNION {{history.reported[n][i][2] : i \in 1..Len(history.reported[n])} :
              n \in DOMAIN history.reported}

(* C1: when send_task is about to be called, and after it has raised, the *)
(* mapping holds under the entry's name the entry reserve() stored: run   *)
(* count one above the entry's count before the tick, last_run_at the     *)
(* time of the reservation; it is still there whatever happens later in   *)
(* the run of this tick, and send_task was called once for that name.     *)
C1_ReservedBeforeDispatch ==
    /\ pc = "send" =>
          /\ entry.name \in DOMAIN data
          /\ data[entry.name] = new_entry
          /\ entry = history.data0[entry.name]
          /\ new_entry.total_run_count = entry.total_run_count + 1
          /\ new_entry.last_run_at = now
    /\ \A n \in DOMAIN history.failed :
          /\ n \in DOMAIN data
          /\ data[n] = history.failed[n]
          /\ data[n].total_run_count =
                 history.data0[n].total_run_count + 1
          /\ data[n].last_run_at >= history.data0[n].last_run_at
          /\ history.attempts[n] = 1

C1_Witness ==
    /\ pc = "sleep"
    /\ DOMAIN history.failed # {}
    /\ \E n \in DOMAIN history.failed : data[n].total_run_count = 2

(* C2 as stated: whichever dispatch calls raised, when a tick ends (not   *)
(* by an interrupt) every entry with a policy has been evaluated, and     *)
(* every one found due has been reserved and had send_task called.        *)
C2_DueEntriesAllDispatched ==
    history.tick \in {"returned", "raised"} =>
        \A n \in DOMAIN data :
            HasIsDue(data[n].schedule) =>
                /\ Len(history.reported[n]) = 1
                /\ history.reported[n][1][1] =>
                       /\ history.attempts[n] = 1
                       /\ data[n].total_run_count =
                              history.data0[n].total_run_count + 1

(* The same statement for mappings whose entries all carry a policy. *)
DueEntriesAllDispatchedIfWellFormed ==
    WellFormed(data) => C2_DueEntriesAllDispatched

(* C3: a tick over a mapping whose entries all carry a policy never ends  *)
(* by raising, whichever dispatch calls raised, and no SchedulingError is *)
(* ever the exception start() propagates.                                 *)
C3_NoSchedulingErrorEscapes ==
    /\ exc # "SchedulingError"
    /\ WellFormed(data) => history.tick # "raised"
    /\ (WellFormed(data) /\ history.tick \notin {"none", "running"}) =>
           /\ history.tick = "returned"
           /\ interval \in 0..max_interval

C3_Witness ==
    /\ pc = "sleep"
    /\ WellFormed(data)
    /\ DOMAIN data = Names
    /\ DOMAIN history.failed = Names

(* C4: the value tick() returns lies between 0 and max_interval, and is   *)
(* max_interval when the mapping is empty.                                *)
C4_TickIntervalBounds ==
    pc = "sleep" =>
        /\ 0 <= interval
        /\ interval <= max_interval
        /\ DOMAIN data = {} => interval = max_interval

C4_Witness ==
    /\ pc = "sleep"
    /\ DOMAIN data # {}
    /\ \E r \in AllReported : r > max_interval
    /\ interval = max_interval

(* C5 as stated: tick() returns the minimum of max_interval and all the   *)
(* remaining values reported in the tick, a zero included.                *)
C5_MinOfAllRemaining ==
    pc = "sleep" => interval = SetMin(AllReported \cup {max_interval})

(* C5 amended: every entry reports one remaining value, due or not, and   *)
(* tick() returns the minimum of max_interval and the non-zero ones.      *)
C5_MinOfNonZeroRemaining ==
    pc = "sleep" =>
        /\ \A n \in DOMAIN data : Len(history.reported[n]) = 1
        /\ interval = SetMin((AllReported \ {0}) \cup {max_interval})

C5_Witness ==
    /\ pc = "sleep"
    /\ 0 \in AllReported
    /\ \E n \in DOMAIN data : history.reported[n][1] = <<TRUE, 1>>
    /\ interval = 1
    /\ max_interval > 1

(* C6 as stated: when a tick ends (not by an interrupt) maybe_due has     *)
(* been entered once for every entry; an entry found due has had one      *)
(* send_task call and its stored count is one up, any other entry has had *)
(* none and its stored entry is the one the tick began with.              *)
C6_EveryEntryVisitedOnce ==
    history.tick \in {"returned", "raised"} =>
        \A n \in DOMAIN data :
            /\ history.visits[n] = 1
            /\ Len(history.reported[n]) <= 1
            /\ IF Len(history.reported[n]) = 1 /\ history.reported[n][1][1]
               THEN /\ history.attempts[n] = 1
                    /\ data[n].total_run_count =
                           history.data0[n].total_run_count + 1
               ELSE /\ history.attempts[n] = 0
                    /\ data[n] = history.data0[n]

(* Within a tick no entry is yielded twice, and an entry already yielded *)
(* is changed only by its own reservation.                               *)
VisitedAtMostOnce ==
    history.tick # "none" =>
        \A n \in DOMAIN data :
            /\ history.visits[n] <= 1
            /\ history.attempts[n] <= history.visits[n]
            /\ n \in todo => data[n] = history.data0[n]

(* The statement of C6 for mappings whose entries all carry a policy. *)
EveryEntryVisitedOnceIfWellFormed ==
    WellFormed(data) => C6_EveryEntryVisitedOnce

(* C7: once the scheduler is constructed, the names of the mapping are    *)
(* the names of the configured schedule.                                  *)
C7_NamesAreConfigured ==
    /\ pc = "idle" => DOMAIN data = {}
    /\ pc # "idle" => DOMAIN data = DOMAIN conf

C7_Witness ==
    /\ pc = "loop"
    /\ nticks >= 1
    /\ DOMAIN data = Names
    /\ DOMAIN history.failed # {}
    /\ \A n \in DOMAIN data : data[n].total_run_count >= 1

(* C8: in every step the stored entry of every name keeps or raises its   *)
(* run count and last_run_at; when it is replaced, the new entry has the  *)
(* old count + 1 and the old name, schedule, args, kwargs and options,    *)
(* and the entry next() was called on is as it was stored.                *)
C8_EntriesOnlyAdvance ==
    [][\A n \in DOMAIN data :
          /\ n \in DOMAIN data'
          /\ data'[n].total_run_count >= data[n].total_run_count
          /\ data'[n].last_run_at >= data[n].last_run_at
          /\ data'[n] # data[n] =>
                /\ data'[n].total_run_count = data[n].total_run_count + 1
                /\ data'[n].name = data[n].name
                /\ data'[n].schedule = data[n].schedule
                /\ data'[n].args = data[n].args
                /\ data'[n].kwargs = data[n].kwargs
                /\ data'[n].options = data[n].options
                /\ entry' = data[n]
                /\ new_entry' = data'[n]]_vars

C8_Witness ==
    \E n \in DOMAIN data :
        /\ data[n].total_run_count = 2
        /\ data[n].last_run_at > 0
        /\ HasIsDue(data[n].schedule)

(* C9 as stated: start() has run sync() exactly once when it is left.     *)
C9_SyncExactlyOnce == pc = "done" => history.syncs = 1

(* C9 amended: start() runs no sync() inside the loop; when it is left,   *)
(* the stopped flag is set and sync() has run once, or twice if the loop  *)
(* was left by KeyboardInterrupt or SystemExit.                           *)
C9_SyncOnceOrTwice ==
    /\ pc \in {"idle", "loop", "checked", "scan", "send", "sleep"} =>
           history.syncs = 0
    /\ pc = "done" =>
          /\ stopped
          /\ history.syncs = IF history.interrupted THEN 2 ELSE 1
          /\ history.interrupted => exc = "none"

C9_Witness ==
    /\ pc = "done"
    /\ history.syncs = 2
    /\ history.interrupted
    /\ history.extra = 0

(* C10: every sync() call leaves the stopped flag set, and a call after   *)
(* the first changes neither that flag, nor the shutdown flag, nor the    *)
(* mapping.                                                               *)
C10_SyncIdempotent ==
    [][(history'.syncs + history'.extra > history.syncs + history.extra) =>
          /\ stopped'
          /\ shutdown' = shutdown
          /\ data' = data
          /\ (history.syncs + history.extra >= 1) =>
                 (stopped /\ stopped' = stopped)]_vars

C10_Witness ==
    /\ history.syncs = 2
    /\ history.extra >= 1
    /\ stopped

(* C11 as stated: when stop(wait=True) has returned, the loop had seen *)
(* the shutdown flag, sync() had set the stopped flag and start() had  *)
(* returned.                                                           *)
C11_StopReturnsAfterStartReturned ==
    caller.pc = "returned" =>
        /\ history.observed
        /\ stopped
        /\ pc = "done"

(* C11: when stop(wait=True) has returned, the loop of start() has been *)
(* left, by the loop test seeing the shutdown flag or by an exception,  *)
(* and sync() has been called and has set the stopped flag; start() may *)
(* still be inside its finally clause.                                  *)
C11_StopReturnsAfterSync ==
    caller.pc = "returned" =>
        /\ stopped
        /\ history.syncs >= 1
        /\ pc \in {"finally", "return", "done"}
        /\ history.observed \/ history.interrupted \/ exc # "none"

(* stop(wait=True) is back while start() has not returned yet *)
C11_Witness ==
    /\ caller.pc = "returned"
    /\ history.observed
    /\ pc = "return"

(* C12: a connection is open exactly while a tick is running: tick()     *)
(* opens one when it begins and has closed it when it has returned or    *)
(* raised, whether nothing was due, entries were dispatched, a dispatch  *)
(* failed or the scan was abandoned; between ticks none is open.         *)
C12_ConnectionScopedToTick ==
    /\ connection = "open" <=> pc \in {"scan", "send"}
    /\ history.tick = "running" <=> pc \in {"scan", "send"}
    /\ connection = "none" <=> nticks = 0
    /\ history.tick \in {"returned", "raised"} => connection = "closed"
    /\ history.interrupted => connection \in {"none", "closed"}

(* a tick whose scan was abandoned has returned and its connection is *)
(* closed                                                             *)
C12_Witness ==
    /\ history.aborted = nticks
    /\ nticks > 0
    /\ history.tick = "returned"
    /\ pc = "sleep"
    /\ connection = "closed"

(* C13: the Scheduler's first mapping holds for every configured name a  *)
(* policy exposing is_due: for an integer N the N-second interval policy *)
(* without a relative phase, for a duration the policy of that duration  *)
(* with the item's "relative" flag, for a policy the policy itself.      *)
C13_ShorthandResolved ==
    history.built # <<>> =>
        \A n \in DOMAIN history.conf0 :
            LET s == history.conf0[n].schedule
                r == history.built[1][n].schedule
            IN  /\ HasIsDue(r)
                /\ s.type = "int" =>
                       /\ r.type = "schedule"
                       /\ r.seconds = s.seconds
                       /\ r.relative \in {"None", "False"}
                /\ s.type = "timedelta" =>
                       r = [type |-> "schedule", seconds |-> s.seconds,
                            relative |-> PopRelative(history.conf0[n])]
                /\ s.type = "schedule" => r = s

(* the same for the items that are not given as an integer *)
ShorthandResolvedUnlessInt ==
    history.built # <<>> =>
        \A n \in DOMAIN history.conf0 :
            LET s == history.conf0[n].schedule
                r == history.built[1][n].schedule
            IN  /\ s.type = "timedelta" =>
                       r = [type |-> "schedule", seconds |-> s.seconds,
                            relative |-> PopRelative(history.conf0[n])]
                /\ s.type = "schedule" => r = s

(* C14: the stop() of the process-embedded service never waits for the   *)
(* stopped flag; once it has set the shutdown flag it goes on to         *)
(* terminate the worker and returns, whatever the worker does, and when  *)
(* it has returned the worker is terminated or had finished.             *)
C14_ProcessStopNeverBlocks ==
    /\ [](caller.pc # "waiting")
    /\ [](caller.pc = "returned" => pc \in {"terminated", "done"})
    /\ (caller.pc = "terminate") ~> (caller.pc = "returned")

(* stop() is back, the worker was killed inside a tick without having *)
(* seen a shutdown flag or called sync()                              *)
C14_Witness ==
    /\ caller.pc = "returned"
    /\ pc = "terminated"
    /\ history.tick = "running"
    /\ ~history.observed
    /\ ~stopped

(* C15: a tick during which the shutdown flag was set, once it has ended  *)
(* (not by an interrupt), has entered maybe_due for every entry and has   *)
(* called send_task for the ones found due; the loop has seen the flag    *)
(* only when it is past its test, and no tick is running after that.      *)
C15_ShutdownNotCheckedMidTick ==
    /\ (/\ nticks > 0
        /\ history.stop_tick = nticks
        /\ history.tick \in {"returned", "raised"}) =>
           \A n \in DOMAIN history.data0 :
               /\ history.visits[n] = 1
               /\ \A i \in 1..Len(history.reported[n]) :
                      history.reported[n][i][1] => history.attempts[n] = 1
    /\ history.observed =>
           /\ pc \in {"finally", "return", "done"}
           /\ history.tick # "running"

(* the same on mappings whose entries all carry a policy *)
ShutdownNotCheckedMidTickIfWellFormed ==
    WellFormed(history.data0) => C15_ShutdownNotCheckedMidTick

(* a tick went on to its end, dispatching, with the flag set midway *)
ShutdownSetMidTickReached ==
    /\ pc = "sleep"
    /\ history.stop_tick = nticks
    /\ history.tick = "returned"
    /\ \E n \in DOMAIN history.data0 : history.attempts[n] = 1

(* C16: while the loop runs with the shutdown flag set, it has begun at   *)
(* most one tick and at most one sleep since the flag was set, the sleep  *)
(* is for at most max_interval, and a loop test made with the flag set    *)
(* leaves the loop for the finally clause, where sync() sets the stopped  *)
(* flag.                                                                  *)
C16_AtMostOneTickAndSleepAfterStop ==
    /\ history.after_ticks <= 1
    /\ history.after_sleeps <= 1
    /\ (shutdown /\ pc = "sleep") => interval <= max_interval
    /\ (shutdown /\ pc = "loop") => ENABLED LoopExit
    /\ (history.observed /\ pc \in {"return", "done"}) => stopped

(* the flag was set between the loop test and tick(): one more tick and *)
(* one more sleep have been begun, and the loop is at its test again    *)
C16_Witness ==
    /\ shutdown
    /\ pc = "loop"
    /\ history.after_ticks = 1
    /\ history.after_sleeps = 1

(* C17: once stop(wait=True) is waiting, it eventually returns. *)
C17_StopEventuallyReturns ==
    (caller.pc = "waiting") ~> (caller.pc = "returned")

(* stop(wait=True) has returned after a loop that saw the flag *)
C17_Witness ==
    /\ caller.pc = "returned"
    /\ history.observed
    /\ stopped
    /\ nticks > 0

(* C18: with the iterator of tick() invalid, no step of the scan enters  *)
(* maybe_due or calls send_task for a further entry or changes the       *)
(* mapping, and the step that ends the scan makes tick() return, with no *)
(* exception for start(): the connection is closed and the value handed  *)
(* to start() is the minimum of max_interval and the non-zero remaining  *)
(* values collected so far.                                              *)
C18_InvalidScanAbandoned ==
    [][(pc = "scan" /\ IterInvalid) =>
          /\ history'.visits = history.visits
          /\ history'.attempts = history.attempts
          /\ (pc' # "scan") =>
                 /\ data' = data
                 /\ pc' = "sleep"
                 /\ exc' = "none"
                 /\ history'.tick = "returned"
                 /\ connection' = "closed"
                 /\ interval' =
                        SetMin((AllReported \ {0}) \cup {max_interval})]_vars

(* a scan was abandoned after an entry had been reserved and dispatched, *)
(* with another entry not visited; the reserved entry is still advanced  *)
C18_Witness ==
    /\ history.aborted = nticks
    /\ nticks > 0
    /\ pc = "sleep"
    /\ \E n \in DOMAIN history.data0 : history.visits[n] = 0
    /\ \E n \in DOMAIN history.data0 \cap DOMAIN data :
           /\ history.attempts[n] = 1
           /\ data[n].total_run_count =
                  history.data0[n].total_run_count + 1

(* C19: a Scheduler built with a schedule store holds, for every name of *)
(* the store that is configured, the stored entry's run count and        *)
(* last-run time.                                                        *)
C19_SeededFromStore ==
    (history.built # <<>> /\ schedule.kind = "store") =>
        \A n \in DOMAIN schedule.entries \cap DOMAIN history.built[1] :
            /\ history.built[1][n].total_run_count =
                   schedule.entries[n].total_run_count
            /\ history.built[1][n].last_run_at =
                   schedule.entries[n].last_run_at

(* what the code does instead: every entry of a new Scheduler is fresh *)
EntriesBuiltFresh ==
    \A i \in 1..Len(history.built) :
        \A n \in DOMAIN history.built[i] :
            history.built[i][n].total_run_count = 0

(* C20: two Schedulers built one after the other from the same          *)
(* configuration hold the same schedule policy, relative flag included, *)
(* under every name.                                                    *)
C20_InitRepeatable ==
    Len(history.built) >= 2 =>
        /\ DOMAIN history.built[2] = DOMAIN history.built[1]
        /\ \A n \in DOMAIN history.built[1] :
               history.built[2][n].schedule = history.built[1][n].schedule

(* the same for the names that are not configured with an integer *)
InitRepeatableUnlessInt ==
    Len(history.built) >= 2 =>
        /\ DOMAIN history.built[2] = DOMAIN history.built[1]
        /\ \A n \in DOMAIN history.built[1] :
               history.conf0[n].schedule.type # "int" =>
                   history.built[2][n].schedule =
                       history.built[1][n].schedule

(* a second Scheduler was built from a configuration giving a duration *)
(* with the relative flag                                              *)
InitRepeatedReached ==
    /\ Len(history.built) = 2
    /\ \E n \in DOMAIN history.conf0 :
           /\ history.conf0[n].schedule.type = "timedelta"
           /\ history.conf0[n].relative = "True"
           /\ conf[n].relative = "absent"
           /\ history.built[2][n].schedule.relative = "True"

====
